---- MODULE Spec2Model ----
(***************************************************************************)
(* Model of src/dataloader/dataset.py: CelebAMaskDataset, the provider of  *)
(* image/mask samples.                                                     *)
(*                                                                         *)
(* Three specifications share the variables:                               *)
(*   Spec      one caller: __init__, then __len__ and __getitem__ calls    *)
(*   SpecConc  several workers inside __getitem__ of one unlabeled         *)
(*             provider, one step per attribute read or write              *)
(*   SpecEnc   _mask_labels and the rescale applied to every label array   *)
(* Python lists are 0-based, sequences here are 1-based: idx_list[i] of    *)
(* the code is idx_list[i + 1] here.                                       *)
(***************************************************************************)
EXTENDS Integers, Sequences, FiniteSets, TLC

\* ------------------------------------------------------------------ bounds
MaxN == 4          \* files the directory scan may discover: 0..MaxN
MaxBatch == 2      \* args.batch: 1..MaxBatch
MaxGpu == 2        \* args.n_gpu: 1..MaxGpu
MaxRes == 2        \* resolution: images and masks are MaxRes x MaxRes
MaxConcFiles == 2  \* SpecConc: files of the unlabeled tree, 1..MaxConcFiles
NumWorkers == 2    \* SpecConc: concurrent callers of __getitem__
MaxLabel == 9      \* SpecEnc: label values 0..MaxLabel, and 255
EncPixels == 2     \* SpecEnc: pixels of a label array

Max(a, b) == IF a >= b THEN a ELSE b

\* The indices a caller passes to __getitem__.
MinIdx == -(MaxN + 1)
MaxIdx == Max(MaxN, MaxBatch * MaxGpu - 1)
Indices == MinIdx..MaxIdx

\* ------------------------------------------------------ constructor inputs
\* phase is any string; "test" stands for every unrecognized one.
Phases == {"train", "val", "train-val", "test"}
Resolutions == {MaxRes}
\* unlabel_transform: None or a callable of the caller.
CallerTransforms == {"None", "custom"}

\* The args object: any object, with or without the attributes n_gpu and
\* batch (an absent attribute carries 0 here and is never read).
ArgsSet ==
    {[has_n_gpu |-> FALSE, has_batch |-> FALSE, n_gpu |-> 0, batch |-> 0]}
    \cup {[has_n_gpu |-> FALSE, has_batch |-> TRUE, n_gpu |-> 0, batch |-> b] :
            b \in 1..MaxBatch}
    \cup {[has_n_gpu |-> TRUE, has_batch |-> FALSE, n_gpu |-> 1, batch |-> 0]}
    \cup {[has_n_gpu |-> TRUE, has_batch |-> TRUE, n_gpu |-> g, batch |-> b] :
            g \in 1..MaxGpu, b \in 1..MaxBatch}

NoArgs == [has_n_gpu |-> FALSE, has_batch |-> FALSE, n_gpu |-> 0, batch |-> 0]

\* ------------------------------------------------------------- file system
\* glob(...) returns the files in some order; the identifier of the file at
\* position i of that order is i.
Scan(n) == [i \in 1..n |-> i]

\* Pixels of <id>.jpg after convert('RGB').resize((r, r)): r*r values 0..255.
ImageFile(id, r) == [k \in 1..(r * r) |-> (id * 37 + k * 101) % 256]

\* Pixels of <id>.png after convert('L').resize((r, r), resample=0): r*r
\* values 0..255; nothing keeps them within the 8 classes.
MaskFile(id, r) == [k \in 1..(r * r) |-> IF (id + k) % 5 = 0 THEN 255 ELSE (id * 3 + k) % 10]

\* ------------------------------------------------------------------- Python
\* list[a:b] for 0 <= a <= b <= len(list).
Slice(list, a, b) == [i \in 1..(b - a) |-> list[a + i]]

\* PyIndexMutNoNeg below PyIndex: indexing without Python's negative indices.
PyIndexMutNoNeg(list, i) ==
    IF 0 <= i /\ i < Len(list) THEN [ok |-> TRUE, val |-> list[i + 1]]
    ELSE [ok |-> FALSE, val |-> 0]

\* list[i]: 0 <= i < len reads position i, -len <= i < 0 reads position
\* len + i, anything else raises IndexError.
PyIndex(list, i) ==
    IF 0 <= i /\ i < Len(list) THEN [ok |-> TRUE, val |-> list[i + 1]]
    ELSE IF -Len(list) <= i /\ i < 0 THEN [ok |-> TRUE, val |-> list[Len(list) + i + 1]]
    ELSE [ok |-> FALSE, val |-> 0]

\* --------------------------------------------------------------------- state
VARIABLES
    status,    \* "new" before __init__, "ready" after it, "raised" if it raised
    self,      \* the attributes of the provider
    ctor,      \* history: the arguments and the locals of the __init__ call
    len_ret,   \* outcome of the last __len__ call
    last,      \* outcome of the last __getitem__ call (Spec)
    pc,        \* SpecConc: each worker's place in __getitem__
    local,     \* SpecConc: each worker's idx and img_idx
    ret,       \* SpecConc: outcome of each worker's last __getitem__
    mask_np,   \* SpecEnc: the label array given to _mask_labels
    labels,    \* SpecEnc: the array _mask_labels returned
    mask_tensor,  \* SpecEnc: the rescaled tensor
    enc_pc     \* SpecEnc: "start", "encoded", "rescaled"

vars == <<status, self, ctor, len_ret, last, pc, local, ret, mask_np, labels, mask_tensor, enc_pc>>

objVars == <<status, self, ctor>>
concVars == <<pc, local, ret>>
encVars == <<mask_np, labels, mask_tensor, enc_pc>>

Workers == 1..NumWorkers

\* No attribute is set before __init__ runs.
Unset ==
    [args |-> NoArgs, is_label |-> FALSE, idx_list |-> <<>>, phase |-> "unset",
     data_size |-> -1, resolution |-> 0, aug |-> FALSE, has_aug_t |-> FALSE,
     unlabel_transform |-> "unset"]

NoCtor ==
    [is_label |-> FALSE, phase |-> "unset", unlabel_transform |-> "unset",
     train_val_idx_list |-> <<>>, train_idx_list |-> <<>>, val_idx_list |-> <<>>]

NoCall ==
    [status |-> "none", req |-> 0, img_idx |-> 0, image |-> <<>>, mask |-> <<>>,
     ops |-> <<>>, applied |-> "none"]

NoLen == [status |-> "none", value |-> 0]

IdleConc ==
    /\ pc = [w \in Workers |-> "idle"]
    /\ local = [w \in Workers |-> [idx |-> 0, img_idx |-> 0]]
    /\ ret = [w \in Workers |-> NoCall]

IdleEnc ==
    /\ mask_np = <<>>
    /\ labels = <<>>
    /\ mask_tensor = <<>>
    /\ enc_pc = "off"

\* ------------------------------------------------------------------ __init__
\* BorderMutRound below border: round() where the code truncates.
BorderMutRound(n) == (8 * n + 5) \div 10

\* border = int(len(train_val_idx_list) * 0.8). 0.8 is the double just above
\* 4/5, so the product is never below 4n/5 and never reaches the next
\* integer: truncation gives floor(4n/5) for every list length a scan yields.
border(n) == (4 * n) \div 5

train_idx_list(full) == Slice(full, 0, border(Len(full)))
val_idx_list(full) == Slice(full, border(Len(full)), Len(full))

\* SelectSplitMutNoRaise below SelectSplit: the else branch keeps the full
\* list where the code raises.
SelectSplitMutNoRaise(phase, full) ==
    IF phase = "train" THEN [ok |-> TRUE, list |-> train_idx_list(full)]
    ELSE IF phase = "val" THEN [ok |-> TRUE, list |-> val_idx_list(full)]
    ELSE [ok |-> TRUE, list |-> full]

\* Lines 72-79: the list a phase selects, or raise Exception().
SelectSplit(phase, full) ==
    IF phase = "train" THEN [ok |-> TRUE, list |-> train_idx_list(full)]
    ELSE IF phase = "val" THEN [ok |-> TRUE, list |-> val_idx_list(full)]
    ELSE IF phase = "train-val" THEN [ok |-> TRUE, list |-> full]
    ELSE [ok |-> FALSE, list |-> <<>>]

\* The attributes __init__ leaves, with n files under the scanned tree.
\* A raise at line 79 leaves only what lines 57-58 assigned.
InitAttrs(a, n, ut, il, ph, ag, res) ==
    LET full == Scan(n)
        sel == IF il THEN SelectSplit(ph, full) ELSE [ok |-> TRUE, list |-> full]
    IN  IF sel.ok
        THEN [args |-> a, is_label |-> il, idx_list |-> sel.list, phase |-> ph,
              data_size |-> Len(sel.list), resolution |-> res, aug |-> ag,
              has_aug_t |-> ag, unlabel_transform |-> ut]
        ELSE [Unset EXCEPT !.args = a, !.is_label = il]

InitStatus(n, il, ph) ==
    IF il /\ ~SelectSplit(ph, Scan(n)).ok THEN "raised" ELSE "ready"

InitHistory(n, ut, il, ph) ==
    [is_label |-> il, phase |-> ph, unlabel_transform |-> ut,
     train_val_idx_list |-> IF il THEN Scan(n) ELSE <<>>,
     train_idx_list |-> IF il THEN train_idx_list(Scan(n)) ELSE <<>>,
     val_idx_list |-> IF il THEN val_idx_list(Scan(n)) ELSE <<>>]

Construct(a, n, ut, il, ph, ag, res) ==
    /\ status = "new"
    /\ status' = InitStatus(n, il, ph)
    /\ self' = InitAttrs(a, n, ut, il, ph, ag, res)
    /\ ctor' = InitHistory(n, ut, il, ph)
    /\ UNCHANGED <<len_ret, last>>
    /\ UNCHANGED concVars
    /\ UNCHANGED encVars

\* ------------------------------------------------------------------- __len__
\* Lines 143-146. Only n_gpu is tested with hasattr; batch is read unguarded.
LenResult(s) ==
    IF ~s.args.has_n_gpu THEN [status |-> "ok", value |-> s.data_size]
    ELSE IF ~s.args.has_batch THEN [status |-> "AttributeError", value |-> 0]
    ELSE [status |-> "ok", value |-> Max(s.args.batch * s.args.n_gpu, s.data_size)]

LenCall ==
    /\ status = "ready"
    /\ len_ret' = LenResult(self)
    /\ UNCHANGED <<status, self, ctor, last>>
    /\ UNCHANGED concVars
    /\ UNCHANGED encVars

\* --------------------------------------------------------------- transforms
\* len(self.color_map.keys()), line 120.
label_size == 8

\* mask_labelsMutOneBased below mask_labels: channel i tests for label i + 1.
mask_labelsMutOneBased(m) ==
    [i \in 1..label_size |-> [k \in DOMAIN m |-> IF m[k] = i THEN 1 ELSE 0]]

\* _mask_labels, lines 119-125: channel i (0-based, stored at i + 1) is 1.0
\* where the label equals i and keeps the 0.0 of np.zeros elsewhere.
mask_labels(m) ==
    [i \in 1..label_size |-> [k \in DOMAIN m |-> IF m[k] = i - 1 THEN 1 ELSE 0]]

\* (mask_tensor - 0.5) / 0.5, lines 168 and 176: 2x - 1, exact in floating
\* point for the entries 0.0 and 1.0.
rescale(t) == [i \in DOMAIN t |-> [k \in DOMAIN t[i] |-> 2 * t[i][k] - 1]]

\* preprocess, lines 128-140: ToTensor (p / 255) then Normalize(0.5, 0.5),
\* (p / 255 - 0.5) / 0.5 = (2p - 255) / 255; entries are kept in units of
\* 1/255.
preprocess(img) == [k \in DOMAIN img |-> 2 * img[k] - 255]

\* A callable of the caller; any function other than preprocess.
custom(img) == [k \in DOMAIN img |-> 255 - img[k]]

ApplyTransform(t, img) == IF t = "preprocess" THEN preprocess(img) ELSE custom(img)

\* HorizontalFlip on an r x r array stored row by row.
Flip(a, r) ==
    [k \in DOMAIN a |-> a[((k - 1) \div r) * r + (r - 1 - ((k - 1) % r)) + 1]]

\* aug_t, lines 106-115: each of the two transforms is drawn with p = 0.5
\* and acts on the image and the mask alike. The library's warp is outside
\* the repository: its outcomes here are no change, the flip, and a shift
\* that leaves only the constant border (value = 0, mask_value = 0).
AugOutcomes(img, mask, r) ==
    { [image |-> img, mask |-> mask],
      [image |-> Flip(img, r), mask |-> Flip(mask, r)],
      [image |-> [k \in DOMAIN img |-> 0], mask |-> [k \in DOMAIN mask |-> 0]] }

\* --------------------------------------------------------------- __getitem__
\* WrapIdxMutSubtract below WrapIdx: one subtraction where the code takes
\* the remainder.
WrapIdxMutSubtract(idx, size) ==
    IF idx >= size THEN [ok |-> TRUE, val |-> idx - size]
    ELSE [ok |-> TRUE, val |-> idx]

\* Lines 149-150. idx % 0 raises ZeroDivisionError; an idx below data_size,
\* negative ones included, is left as it is.
WrapIdx(idx, size) ==
    IF idx >= size
    THEN IF size = 0 THEN [ok |-> FALSE, val |-> 0] ELSE [ok |-> TRUE, val |-> idx % size]
    ELSE [ok |-> TRUE, val |-> idx]

\* AugConditionMutNoPhase below AugCondition: the phase is not looked at.
AugConditionMutNoPhase(s) == s.aug

\* Line 158, inside the is_label branch of line 155.
AugCondition(s) == (s.phase = "train" \/ s.phase = "train-val") /\ s.aug

\* NeedsDefaultMutAlways below NeedsDefault: the default is assigned on
\* every call.
NeedsDefaultMutAlways(t) == TRUE

\* Line 184: self.unlabel_transform is None.
NeedsDefault(t) == t = "None"

\* TransformAfterMutBothModes below TransformAfter: the lazy assignment
\* placed before the is_label test.
TransformAfterMutBothModes(s) ==
    IF NeedsDefault(s.unlabel_transform) THEN "preprocess" ELSE s.unlabel_transform

\* self.unlabel_transform when a __getitem__ that reached line 155 returns:
\* lines 184-185 run in the else branch of is_label only.
TransformAfter(s) ==
    IF ~s.is_label /\ NeedsDefault(s.unlabel_transform) THEN "preprocess"
    ELSE s.unlabel_transform

Failed(idx, what) == [NoCall EXCEPT !.status = what, !.req = idx]

\* Lines 155-181 on the identifier id, out being what aug_t returned.
LabeledItem(s, idx, id, out) ==
    [status |-> "ok", req |-> idx, img_idx |-> id,
     image |-> preprocess(out.image),
     mask |-> rescale(mask_labels(out.mask)),
     ops |-> IF AugCondition(s)
             THEN <<"open_image", "open_mask", "aug_t", "preprocess", "mask_labels", "rescale">>
             ELSE <<"open_image", "open_mask", "preprocess", "mask_labels", "rescale">>,
     applied |-> "none"]

\* Lines 182-189 on the identifier id, t being self.unlabel_transform as
\* line 186 reads it. Calling None raises TypeError.
UnlabeledItem(s, idx, id, t) ==
    IF t = "None" THEN Failed(idx, "TypeError")
    ELSE [status |-> "ok", req |-> idx, img_idx |-> id,
          image |-> ApplyTransform(t, ImageFile(id, s.resolution)),
          mask |-> <<>>,
          ops |-> <<"open_image", "unlabel_transform">>,
          applied |-> t]

\* The whole of __getitem__(idx), one caller at a time.
GetItem(idx) ==
    /\ status = "ready"
    /\ LET w == WrapIdx(idx, self.data_size)
           r == IF w.ok THEN PyIndex(self.idx_list, w.val) ELSE [ok |-> FALSE, val |-> 0]
       IN  IF ~w.ok
           THEN /\ last' = Failed(idx, "ZeroDivisionError")
                /\ self' = self
           ELSE IF ~r.ok
           THEN /\ last' = Failed(idx, "IndexError")
                /\ self' = self
           ELSE /\ self' = [self EXCEPT !.unlabel_transform = TransformAfter(self)]
                /\ IF self.is_label
                   THEN LET img == ImageFile(r.val, self.resolution)
                            msk == MaskFile(r.val, self.resolution)
                        IN  \E out \in IF AugCondition(self)
                                       THEN AugOutcomes(img, msk, self.resolution)
                                       ELSE {[image |-> img, mask |-> msk]} :
                                last' = LabeledItem(self, idx, r.val, out)
                   ELSE last' = UnlabeledItem(self, idx, r.val, TransformAfter(self))
    /\ UNCHANGED <<status, ctor, len_ret>>
    /\ UNCHANGED concVars
    /\ UNCHANGED encVars

\* ---------------------------------------------------------------------- Spec
Init ==
    /\ status = "new"
    /\ self = Unset
    /\ ctor = NoCtor
    /\ len_ret = NoLen
    /\ last = NoCall
    /\ IdleConc
    /\ IdleEnc

Next ==
    \/ \E a \in ArgsSet, n \in 0..MaxN, ut \in CallerTransforms, il \in BOOLEAN,
          ph \in Phases, ag \in BOOLEAN, res \in Resolutions :
            Construct(a, n, ut, il, ph, ag, res)
    \/ LenCall
    \/ \E idx \in Indices : GetItem(idx)

Spec == Init /\ [][Next]_vars

\* ------------------------------------------------------------------ SpecConc
\* Several workers of the batch loader inside __getitem__ of one unlabeled
\* provider. A step is one read or one write of self.unlabel_transform;
\* the interpreter orders such steps but nothing in the class does.
ConcBegin(w, idx) ==
    /\ status = "ready"
    /\ ~self.is_label
    /\ pc[w] = "idle"
    /\ LET wr == WrapIdx(idx, self.data_size)
           r == IF wr.ok THEN PyIndex(self.idx_list, wr.val) ELSE [ok |-> FALSE, val |-> 0]
       IN  IF ~wr.ok
           THEN /\ ret' = [ret EXCEPT ![w] = Failed(idx, "ZeroDivisionError")]
                /\ UNCHANGED <<pc, local>>
           ELSE IF ~r.ok
           THEN /\ ret' = [ret EXCEPT ![w] = Failed(idx, "IndexError")]
                /\ UNCHANGED <<pc, local>>
           ELSE /\ pc' = [pc EXCEPT ![w] = "check"]
                /\ local' = [local EXCEPT ![w] = [idx |-> idx, img_idx |-> r.val]]
                /\ ret' = [ret EXCEPT ![w] = NoCall]
    /\ UNCHANGED <<status, self, ctor, len_ret, last>>
    /\ UNCHANGED encVars

\* Line 184: the test.
ConcCheck(w) ==
    /\ pc[w] = "check"
    /\ pc' = [pc EXCEPT ![w] = IF NeedsDefault(self.unlabel_transform) THEN "assign" ELSE "call"]
    /\ UNCHANGED <<status, self, ctor, len_ret, last, local, ret>>
    /\ UNCHANGED encVars

\* Line 185: the assignment.
ConcAssign(w) ==
    /\ pc[w] = "assign"
    /\ self' = [self EXCEPT !.unlabel_transform = "preprocess"]
    /\ pc' = [pc EXCEPT ![w] = "call"]
    /\ UNCHANGED <<status, ctor, len_ret, last, local, ret>>
    /\ UNCHANGED encVars

\* Lines 186-189: the attribute is read again and called.
ConcCall(w) ==
    /\ pc[w] = "call"
    /\ ret' = [ret EXCEPT ![w] =
                 UnlabeledItem(self, local[w].idx, local[w].img_idx, self.unlabel_transform)]
    /\ pc' = [pc EXCEPT ![w] = "idle"]
    /\ local' = [local EXCEPT ![w] = [idx |-> 0, img_idx |-> 0]]
    /\ UNCHANGED <<status, self, ctor, len_ret, last>>
    /\ UNCHANGED encVars

\* The providers __init__ builds over an unlabeled tree of 1..MaxConcFiles
\* files, with and without a transform of the caller.
InitConc ==
    /\ \E n \in 1..MaxConcFiles, ut \in CallerTransforms, ph \in Phases :
          /\ status = InitStatus(n, FALSE, ph)
          /\ self = InitAttrs(NoArgs, n, ut, FALSE, ph, FALSE, MaxRes)
          /\ ctor = InitHistory(n, ut, FALSE, ph)
    /\ len_ret = NoLen
    /\ last = NoCall
    /\ IdleConc
    /\ IdleEnc

NextConc ==
    \E w \in Workers :
        \/ \E idx \in 0..MaxConcFiles : ConcBegin(w, idx)
        \/ ConcCheck(w)
        \/ ConcAssign(w)
        \/ ConcCall(w)

SpecConc == InitConc /\ [][NextConc]_vars

\* ------------------------------------------------------------------- SpecEnc
\* _mask_labels and the rescale on every label array of EncPixels pixels.
LabelValues == (0..MaxLabel) \cup {255}

EncMaskLabels ==
    /\ enc_pc = "start"
    /\ labels' = mask_labels(mask_np)
    /\ enc_pc' = "encoded"
    /\ UNCHANGED <<mask_np, mask_tensor>>
    /\ UNCHANGED <<status, self, ctor, len_ret, last>>
    /\ UNCHANGED concVars

EncRescale ==
    /\ enc_pc = "encoded"
    /\ mask_tensor' = rescale(labels)
    /\ enc_pc' = "rescaled"
    /\ UNCHANGED <<mask_np, labels>>
    /\ UNCHANGED <<status, self, ctor, len_ret, last>>
    /\ UNCHANGED concVars

InitEnc ==
    /\ status = "new"
    /\ self = Unset
    /\ ctor = NoCtor
    /\ len_ret = NoLen
    /\ last = NoCall
    /\ IdleConc
    /\ mask_np \in [1..EncPixels -> LabelValues]
    /\ labels = <<>>
    /\ mask_tensor = <<>>
    /\ enc_pc = "start"

NextEnc == EncMaskLabels \/ EncRescale

SpecEnc == InitEnc /\ [][NextEnc]_vars

\* ==================================================================== claims
ValidPhases == {"train", "val", "train-val"}

\* floor(0.8 * n), stated without the constructor's arithmetic.
FloorFourFifths(n) == CHOOSE k \in 0..n : 5 * k <= 4 * n /\ 4 * n < 5 * (k + 1)

Range(seq) == {seq[i] : i \in DOMAIN seq}

\* C1: in labeled mode the constructor splits the scanned list by position
\* at floor(0.8 * N): train_idx is the prefix, val_idx the rest, the two
\* lengths add up to N, they share no position, their concatenation is the
\* scanned list, and the phase selects train_idx, val_idx or the whole list.
C1_SplitByPosition ==
    (status = "ready" /\ ctor.is_label) =>
        LET full == ctor.train_val_idx_list
            N == Len(full)
            b == FloorFourFifths(N)
        IN  /\ ctor.train_idx_list = SubSeq(full, 1, b)
            /\ ctor.val_idx_list = SubSeq(full, b + 1, N)
            /\ Len(ctor.train_idx_list) + Len(ctor.val_idx_list) = N
            /\ Range(ctor.train_idx_list) \cap Range(ctor.val_idx_list) = {}
            /\ ctor.train_idx_list \o ctor.val_idx_list = full
            /\ self.phase = "train" => self.idx_list = ctor.train_idx_list
            /\ self.phase = "val" => self.idx_list = ctor.val_idx_list
            /\ self.phase = "train-val" => self.idx_list = full
            /\ self.data_size = Len(self.idx_list)

C1_Witness ==
    /\ status = "ready"
    /\ ctor.is_label
    /\ self.phase = "val"
    /\ Len(ctor.train_val_idx_list) = MaxN
    /\ Len(self.idx_list) >= 1
    /\ Len(ctor.train_idx_list) >= 2

Augmented(call) == \E i \in DOMAIN call.ops : call.ops[i] = "aug_t"

\* C2: with real_size >= 1 and no augmentation applied, get(idx) for
\* idx >= real_size resolves the identifier idx_list[idx mod real_size], and
\* a get(idx) and a get(idx mod real_size) made one after the other return
\* the same sample.
C2_WrapSameResult ==
    /\ [](  (last.status # "none" /\ self.data_size >= 1 /\ last.req >= self.data_size)
            => /\ last.status = "ok"
               /\ last.img_idx = self.idx_list[(last.req % self.data_size) + 1])
    /\ [][ (/\ last.status = "ok" /\ last'.status = "ok"
            /\ ~Augmented(last) /\ ~Augmented(last')
            /\ self.data_size >= 1
            /\ \/ last.req >= self.data_size /\ last'.req = last.req % self.data_size
               \/ last'.req >= self.data_size /\ last.req = last'.req % self.data_size)
           => [last' EXCEPT !.req = last.req] = last ]_vars

C2_Witness ==
    /\ last.status = "ok"
    /\ ~Augmented(last)
    /\ self.data_size >= 2
    /\ last.req >= 2 * self.data_size

\* C3: __len__ is the real sample count when args has no n_gpu or when
\* batch * n_gpu does not exceed it, batch * n_gpu otherwise; it is never
\* below the real sample count and computing it does not fail.
C3_LengthNeverFails ==
    len_ret.status # "none" =>
        /\ len_ret.status = "ok"
        /\ len_ret.value >= self.data_size
        /\ len_ret.value =
             IF ~self.args.has_n_gpu \/ self.args.batch * self.args.n_gpu <= self.data_size
             THEN self.data_size
             ELSE self.args.batch * self.args.n_gpu

\* C4: for every provider, whatever its real sample count and replication
\* factor, every idx in 0 .. len - 1 resolves an identifier of the stored
\* list and fails on no index resolution.
C4_NeverRunsOut ==
    (/\ last.status # "none"
     /\ LenResult(self).status = "ok"
     /\ 0 <= last.req
     /\ last.req < LenResult(self).value)
    => /\ last.status = "ok"
       /\ last.img_idx \in Range(self.idx_list)

\* C5 as first stated: with real_size >= 1 every idx outside [0, real_size),
\* negative ones included, raises no index error and resolves the
\* identifier at idx mod real_size.
C5_Original ==
    (/\ last.status # "none"
     /\ self.data_size >= 1
     /\ (last.req < 0 \/ last.req >= self.data_size))
    => /\ last.status = "ok"
       /\ last.img_idx = self.idx_list[(last.req % self.data_size) + 1]

\* C5: with real_size >= 1, every idx >= -real_size outside [0, real_size)
\* raises no index error and resolves the identifier at idx mod real_size
\* (by the modulo at or above real_size, by the list's own negative
\* indexing below 0); every idx < -real_size raises an index error.
C5_WrapFromMinusSize ==
    (/\ last.status # "none"
     /\ self.data_size >= 1
     /\ (last.req < 0 \/ last.req >= self.data_size))
    => IF last.req >= -self.data_size
       THEN /\ last.status = "ok"
            /\ last.img_idx = self.idx_list[(last.req % self.data_size) + 1]
       ELSE last.status = "IndexError"

C5_Witness ==
    /\ last.status = "ok"
    /\ self.data_size >= 2
    /\ last.req = -self.data_size

\* C6 as first stated: a phase outside train, val, train-val fails the
\* construction for either value of is_label, so no provider with an
\* unrecognized phase exists and get never runs on one.
C6_Original ==
    /\ (status # "new" /\ ctor.phase \notin ValidPhases) => status = "raised"
    /\ status = "ready" => self.phase \in ValidPhases
    /\ last.status # "none" => self.phase \in ValidPhases

\* C6: in labeled mode a phase outside train, val, train-val fails the
\* construction at once, so no labeled provider with an unrecognized phase
\* exists and neither get nor the length runs on one; in unlabeled mode the
\* phase is not looked at and the construction succeeds whatever it is.
C6_LabeledPhaseChecked ==
    /\ status # "new" =>
          (status = "raised" <=> (ctor.is_label /\ ctor.phase \notin ValidPhases))
    /\ (status = "ready" /\ self.is_label) => self.phase \in ValidPhases
    /\ status = "raised" => (last.status = "none" /\ len_ret.status = "none")
    /\ (last.status # "none" /\ self.is_label) => self.phase \in ValidPhases

C6_Witness ==
    /\ status = "raised"
    /\ ctor.is_label
    /\ ctor.phase = "test"

Channels == 0..7

\* C7: channel i of the encoder is 1.0 exactly where the label is i and 0.0
\* elsewhere: a pixel labeled within 0..7 has one hot channel, its label's,
\* a pixel labeled outside has none; after the rescale hot is 1.0 and every
\* other entry -1.0.
C7_OneHot ==
    /\ enc_pc \in {"encoded", "rescaled"} =>
          /\ Len(labels) = Cardinality(Channels)
          /\ \A k \in DOMAIN mask_np :
                /\ \A i \in Channels : labels[i + 1][k] \in {0, 1}
                /\ Cardinality({i \in Channels : labels[i + 1][k] = 1})
                      = IF mask_np[k] \in Channels THEN 1 ELSE 0
                /\ mask_np[k] \in Channels => labels[mask_np[k] + 1][k] = 1
    /\ enc_pc = "rescaled" =>
          \A k \in DOMAIN mask_np : \A i \in Channels :
              mask_tensor[i + 1][k] = IF mask_np[k] = i THEN 1 ELSE -1

C7_Witness ==
    /\ enc_pc = "rescaled"
    /\ mask_np[1] = 0
    /\ mask_np[2] = 8

Before(ops, a, b) ==
    \A i, j \in DOMAIN ops : (ops[i] = a /\ ops[j] = b) => i < j

\* C8: a get applies the Augmentor if and only if the provider is labeled,
\* its phase is train or train-val and augmentation is enabled; when applied
\* it runs before the Encoder and the Normalizer, which both work on the
\* one pair it returned; otherwise they work on the pair as loaded.
C8_AugmentIff ==
    last.status = "ok" =>
        LET img == ImageFile(last.img_idx, self.resolution)
            msk == MaskFile(last.img_idx, self.resolution)
        IN  /\ Augmented(last) <=>
                  (self.is_label /\ self.phase \in {"train", "train-val"} /\ self.aug)
            /\ Augmented(last) =>
                  /\ Before(last.ops, "aug_t", "preprocess")
                  /\ Before(last.ops, "aug_t", "mask_labels")
                  /\ Before(last.ops, "aug_t", "rescale")
                  /\ \E out \in AugOutcomes(img, msk, self.resolution) :
                        /\ last.image = preprocess(out.image)
                        /\ last.mask = rescale(mask_labels(out.mask))
            /\ (~Augmented(last) /\ self.is_label) =>
                  /\ last.image = preprocess(img)
                  /\ last.mask = rescale(mask_labels(msk))

C8_Witness ==
    /\ last.status = "ok"
    /\ Augmented(last)
    /\ self.phase = "train-val"
    /\ last.image # preprocess(ImageFile(last.img_idx, self.resolution))

\* C9: under every interleaving of the workers' steps on one unlabeled
\* provider, no call applies a null transform; a transform of the caller is
\* applied by every call and never replaced; without one every call applies
\* the default Normalizer, and once a call has passed the assignment the
\* stored transform is the default Normalizer.
C9_LazyDefaultRaceSafe ==
    /\ ctor.unlabel_transform = "custom" => self.unlabel_transform = "custom"
    /\ ctor.unlabel_transform = "None" => self.unlabel_transform \in {"None", "preprocess"}
    /\ \A w \in Workers :
          /\ ret[w].status # "TypeError"
          /\ pc[w] = "call" => self.unlabel_transform # "None"
          /\ ret[w].status = "ok" =>
                /\ ret[w].applied = IF ctor.unlabel_transform = "custom"
                                    THEN "custom" ELSE "preprocess"
                /\ ret[w].image = IF ctor.unlabel_transform = "custom"
                                  THEN custom(ImageFile(ret[w].img_idx, self.resolution))
                                  ELSE preprocess(ImageFile(ret[w].img_idx, self.resolution))
          /\ (ctor.unlabel_transform = "None" /\ (pc[w] = "call" \/ ret[w].status = "ok"))
                => self.unlabel_transform = "preprocess"

C9_Witness ==
    /\ ctor.unlabel_transform = "None"
    /\ pc[1] = "assign"
    /\ ret[2].status = "ok"
    /\ ret[2].applied = "preprocess"

\* C10: once constructed, every get and every length query leaves the
\* identifier list, the real sample count, the phase, the mode, the
\* augmentation flag and the resolution as they are; the stored unlabeled
\* transform changes only from unset to the default Normalizer (so at most
\* once), only in a get, and only in unlabeled mode.
C10_FrozenAfterInit ==
    [][ status = "ready" =>
          /\ status' = "ready"
          /\ self'.idx_list = self.idx_list
          /\ self'.data_size = self.data_size
          /\ self'.phase = self.phase
          /\ self'.is_label = self.is_label
          /\ self'.aug = self.aug
          /\ self'.resolution = self.resolution
          /\ self'.args = self.args
          /\ self'.unlabel_transform # self.unlabel_transform =>
                /\ self.unlabel_transform = "None"
                /\ self'.unlabel_transform = "preprocess"
                /\ ~self.is_label
                /\ len_ret' = len_ret
                /\ last'.status = "ok"
                /\ last'.applied = "preprocess" ]_vars

C10_Witness ==
    /\ status = "ready"
    /\ ~self.is_label
    /\ ctor.unlabel_transform = "None"
    /\ self.unlabel_transform = "preprocess"
    /\ len_ret.status = "ok"

====
